---- MODULE Spec2Model ----
(***************************************************************************)
(* Model of SourceKit's cursor-info / related-identifier support           *)
(* (tools/SourceKit/lib/SwiftLang/SwiftSourceDocInfo.cpp): the offset      *)
(* remapping across a document's snapshot chain, the negotiation that      *)
(* decides whether an existing AST may be used, and the request pipeline   *)
(* built on them; and of the generic specializer's driver                  *)
(* (lib/SILOptimizer/Transforms/GenericSpecializer.cpp).                   *)
(***************************************************************************)
EXTENDS Integers, Sequences, FiniteSets, TLC

VARIABLES
  OldText,   \* text of the document's oldest retained snapshot (stamp 0)
  Updates,   \* edit records; Updates[k] turns snapshot k-1 into snapshot k
  rpc,       \* position of the remap driver: "idle" | "start" | "mapped" | "done"
  rDir,      \* direction of the first remap: "newer" | "older"
  rOrig,     \* the offset the remap driver was given
  rFirst,    \* result of the first remap (Optional)
  rSecond,   \* result of mapping rFirst back the opposite way (Optional)
  docOpen,   \* the editor has a document for InputFile (findByPath succeeds)
  reqKind,   \* the query: "none" | "cursor" | "related"
  origOffset,\* the Offset argument of the query (an offset of the latest snapshot)
  qpc,       \* position of the query: "idle" | "start" | "pending" | "accepted"
             \*   | "building" | "done"
  consumer,  \* the SwiftASTConsumer of the request in flight
             \*   (Offset, TryExistingAST, PreviousASTSnaps)
  offered,   \* negotiation of the request in flight: the snapshot list the
             \*   consumer was asked about, the offset it held then, its answer
  handled,   \* the handlePrimaryAST calls made so far, in order
  requests,  \* number of processASTAsync calls made for the query
  callbacks, \* the consumer callbacks the AST manager made so far, in order:
             \*   "handlePrimaryAST" | "cancelled" | "failed"
  received,  \* the Receiver calls made so far, in order
  relpc,     \* position of the related-names run: "idle" | "start" | "done"
  relVD,     \* the declaration passCursorInfoForDecl assembles a response for
  relLookup, \* Lookup.Results of the unqualified lookup of its base name
  relNames,  \* the RelatedName entries written, in order
  spc,       \* position of GenericSpecializer::run: "idle" | "run" | "done"
  F,         \* the function: its basic blocks, each a sequence of instructions
  BB,        \* index of the block the outer loop is at (Len(F) + 1: past the end)
  It,        \* index in that block of the instruction the iterator points to
  specialized, \* the trySpecializeApplyOfGeneric calls made so far, in order
  DeadApplies, \* the instructions reported dead and not yet removed
  deleted,   \* the instructions removed so far, in order
  notified,  \* the notifyPassManagerOfFunction calls made so far, in order
  Changed,   \* the local Changed of specializeAppliesInFunction
  invalidated \* whether run() called invalidateAnalysis

docVars == <<OldText, Updates, docOpen>>

remapVars == <<rpc, rDir, rOrig, rFirst, rSecond>>

relatedDeclVars == <<relpc, relVD, relLookup, relNames>>

specializerVars ==
  <<spc, F, BB, It, specialized, DeadApplies, deleted, notified, Changed, invalidated>>

queryVars ==
  <<reqKind, origOffset, qpc, consumer, offered, handled, requests, callbacks, received>>

vars == <<OldText, Updates, docOpen, rpc, rDir, rOrig, rFirst, rSecond,
          reqKind, origOffset, qpc, consumer, offered, handled, requests, callbacks,
          received, relpc, relVD, relLookup, relNames,
          spc, F, BB, It, specialized, DeadApplies, deleted, notified, Changed,
          invalidated>>

-----------------------------------------------------------------------------
(* Bounds *)

\* longest oldest-snapshot text enumerated by the remap driver
MaxOldLen == 1
\* longest chain of edit records
MaxUpdates == 2

-----------------------------------------------------------------------------
(* llvm::Optional<unsigned> *)

None == [has |-> FALSE, val |-> 0]

Some(v) == [has |-> TRUE, val |-> v]

-----------------------------------------------------------------------------
(* Snapshot chain.  A snapshot is identified by its stamp: snapshot 0 has   *)
(* text OldText, snapshot k is snapshot k-1 with Updates[k] applied.        *)

\* ReplaceImmutableTextUpdate: replace Length bytes at ByteOffset by Text
ReplaceUpdate(off, len, txt) == [ByteOffset |-> off, Length |-> len, Text |-> txt]

\* the text after one edit record
ApplyReplace(txt, Upd) ==
  SubSeq(txt, 1, Upd.ByteOffset) \o Upd.Text
    \o SubSeq(txt, Upd.ByteOffset + Upd.Length + 1, Len(txt))

RECURSIVE TextAfter(_, _, _)
TextAfter(txt, Upds, k) ==
  IF k = 0 THEN txt ELSE ApplyReplace(TextAfter(txt, Upds, k - 1), Upds[k])

\* text of the snapshot with the given stamp
SnapshotText(stamp) == TextAfter(OldText, Updates, stamp)

LatestStamp == Len(Updates)

\* foreachReplaceUntil: the edit records leading from OldSnap to NewSnap
ReplacesUntil(OldSnap, NewSnap) == SubSeq(Updates, OldSnap + 1, NewSnap)

-----------------------------------------------------------------------------
(* mapOffsetToOlderSnapshot / mapOffsetToNewerSnapshot.  Offsets are        *)
(* unsigned; an adjustment is made only when the offset is at or past the   *)
(* end of the span being taken out, so "+=" followed by "-=" never wraps    *)
(* for documents shorter than 2^32 bytes and is modelled on the integers.   *)

\* "Offset is part of newly inserted text."
InInsertedSpanAtEnd(Upd, Offset) ==
  /\ Upd.ByteOffset <= Offset
  /\ Offset <= Upd.ByteOffset + Len(Upd.Text)

InInsertedSpan(Upd, Offset) ==
  /\ Upd.ByteOffset <= Offset
  /\ Offset < Upd.ByteOffset + Len(Upd.Text)

UndoUpdateNoBringBack(Upd, Offset) ==
  IF Upd.ByteOffset <= Offset
    THEN Offset - Len(Upd.Text)
    ELSE Offset

UndoUpdateStrictlyAfter(Upd, Offset) ==
  IF Upd.ByteOffset < Offset
    THEN (Offset + Upd.Length) - Len(Upd.Text)
    ELSE Offset

\* "bring back" what was removed, "remove" what was added
UndoUpdate(Upd, Offset) ==
  IF Upd.ByteOffset <= Offset
    THEN (Offset + Upd.Length) - Len(Upd.Text)
    ELSE Offset

RECURSIVE OlderLoop(_, _, _)
OlderLoop(Offset, Upds, i) ==
  IF i = 0 THEN Some(Offset)
  ELSE IF InInsertedSpan(Upds[i], Offset) THEN None
  ELSE OlderLoop(UndoUpdate(Upds[i], Offset), Upds, i - 1)

mapOffsetToOlderSnapshot(Offset, NewSnap, OldSnap) ==
  LET Upds == ReplacesUntil(OldSnap, NewSnap)
  IN  OlderLoop(Offset, Upds, Len(Upds))

InRemovedSpanAfterStart(Upd, Offset) ==
  /\ Upd.ByteOffset < Offset
  /\ Offset < Upd.ByteOffset + Upd.Length

\* "Offset is part of removed text."
InRemovedSpan(Upd, Offset) ==
  /\ Upd.ByteOffset <= Offset
  /\ Offset < Upd.ByteOffset + Upd.Length

ApplyUpdateInverted(Upd, Offset) ==
  IF Upd.ByteOffset <= Offset
    THEN (Offset + Upd.Length) - Len(Upd.Text)
    ELSE Offset

ApplyUpdateStrictlyBefore(Upd, Offset) ==
  IF Upd.ByteOffset < Offset
    THEN (Offset + Len(Upd.Text)) - Upd.Length
    ELSE Offset

ApplyUpdate(Upd, Offset) ==
  IF Upd.ByteOffset <= Offset
    THEN (Offset + Len(Upd.Text)) - Upd.Length
    ELSE Offset

RECURSIVE NewerLoop(_, _, _)
NewerLoop(Offset, Upds, i) ==
  IF i > Len(Upds) THEN Some(Offset)
  ELSE IF InRemovedSpan(Upds[i], Offset) THEN None
  ELSE NewerLoop(ApplyUpdate(Upds[i], Offset), Upds, i + 1)

mapOffsetToNewerSnapshot(Offset, OldSnap, NewSnap) ==
  NewerLoop(Offset, ReplacesUntil(OldSnap, NewSnap), 1)

-----------------------------------------------------------------------------
(* Snapshots as the consumers see them.  The document of InputFile is       *)
(* buffer "main"; "other" stands for any other file of the AST.             *)

Snapshot(buf, stamp) == [buf |-> buf, stamp |-> stamp]

isFromSameBuffer(Snap, Other) == Snap.buf = Other.buf

NullSnapshot == [has |-> FALSE, snap |-> Snapshot("main", 0)]

\* EditorDoc->getLatestSnapshot() of the document found by path, if any
getLatestSnapshot(Filename) ==
  IF Filename = "main" /\ docOpen
    THEN [has |-> TRUE, snap |-> Snapshot("main", LatestStamp)]
    ELSE NullSnapshot

\* index of the first snapshot of the list that is from Snap's buffer, or 0
RECURSIVE FirstFromSameBuffer(_, _, _)
FirstFromSameBuffer(Snapshots, Snap, i) ==
  IF i > Len(Snapshots) THEN 0
  ELSE IF isFromSameBuffer(Snapshots[i], Snap) THEN i
  ELSE FirstFromSameBuffer(Snapshots, Snap, i + 1)

-----------------------------------------------------------------------------
(* getSourceToken: the text of the token the lexer produces when started    *)
(* at the offset (leading whitespace skipped; empty at the end of buffer).  *)

IsSpace(c) == c = " "

RECURSIVE SkipSpace(_, _)
SkipSpace(txt, pos) ==
  IF pos <= Len(txt) /\ IsSpace(txt[pos]) THEN SkipSpace(txt, pos + 1) ELSE pos

RECURSIVE TokenEnd(_, _)
TokenEnd(txt, pos) ==
  IF pos <= Len(txt) /\ ~IsSpace(txt[pos]) THEN TokenEnd(txt, pos + 1) ELSE pos

getTokenAt(txt, off) ==
  LET b == SkipSpace(txt, off + 1)
  IN  SubSeq(txt, b, TokenEnd(txt, b) - 1)

getSourceToken(Offset, Snap) == getTokenAt(SnapshotText(Snap.stamp), Offset)

-----------------------------------------------------------------------------
(* CursorInfoConsumer::canUseASTWithSnapshots *)

Consumer(off, try, prev) ==
  [Offset |-> off, TryExistingAST |-> try, PreviousASTSnaps |-> prev]

NoConsumer == Consumer(0, FALSE, <<>>)

SameTokenOrBothEmpty(NewTok, OldTok) == NewTok = OldTok

\* "Check that the new and old offset still point to the same token."
SameToken(NewTok, OldTok) ==
  IF NewTok = <<>> THEN FALSE ELSE NewTok = OldTok

mappedBackOffsetAlwaysVerifies(Offset, Snapshots, InputSnap) ==
  LET i == FirstFromSameBuffer(Snapshots, InputSnap, 1)
  IN  IF i = 0 THEN None
      ELSE LET OptOffset == mapOffsetToOlderSnapshot(Offset, InputSnap.stamp,
                                                     Snapshots[i].stamp)
           IN  IF ~OptOffset.has THEN None
               ELSE IF SameToken(getSourceToken(Offset, InputSnap),
                                 getSourceToken(OptOffset.val, Snapshots[i]))
                      THEN OptOffset
                      ELSE None

mappedBackOffsetTryingLater(Offset, Snapshots, InputSnap) ==
  LET Verified(i) ==
        IF Snapshots[i].stamp = InputSnap.stamp THEN Some(Offset)
        ELSE LET OptOffset == mapOffsetToOlderSnapshot(Offset, InputSnap.stamp,
                                                       Snapshots[i].stamp)
             IN  IF ~OptOffset.has THEN None
                 ELSE IF SameToken(getSourceToken(Offset, InputSnap),
                                   getSourceToken(OptOffset.val, Snapshots[i]))
                        THEN OptOffset
                        ELSE None
      Usable == {i \in 1..Len(Snapshots) :
                   isFromSameBuffer(Snapshots[i], InputSnap) /\ Verified(i).has}
  IN  IF Usable = {} THEN None
      ELSE Verified(CHOOSE i \in Usable : \A j \in Usable : i <= j)

\* the mappedBackOffset lambda of canUseASTWithSnapshots
mappedBackOffset(Offset, Snapshots, InputSnap) ==
  LET i == FirstFromSameBuffer(Snapshots, InputSnap, 1)
  IN  IF i = 0 THEN None
      ELSE IF Snapshots[i].stamp = InputSnap.stamp THEN Some(Offset)
      ELSE LET OptOffset == mapOffsetToOlderSnapshot(Offset, InputSnap.stamp,
                                                     Snapshots[i].stamp)
           IN  IF ~OptOffset.has THEN None
               ELSE IF SameToken(getSourceToken(Offset, InputSnap),
                                 getSourceToken(OptOffset.val, Snapshots[i]))
                      THEN OptOffset
                      ELSE None

canUseASTWithSnapshotsKeepingFirst(C, Snapshots) ==
  LET InputSnap == getLatestSnapshot("main")
      Rejected == [answer |-> FALSE, consumer |-> C]
  IN  IF ~C.TryExistingAST THEN Rejected
      ELSE IF ~InputSnap.has THEN Rejected
      ELSE LET OldOffsetOpt == mappedBackOffset(C.Offset, Snapshots, InputSnap.snap)
           IN  IF OldOffsetOpt.has
                 THEN [answer |-> TRUE,
                       consumer |-> Consumer(OldOffsetOpt.val, C.TryExistingAST,
                                             C.PreviousASTSnaps \o <<Snapshots[1]>>)]
                 ELSE Rejected

\* the answer, and the consumer as the call leaves it
canUseASTWithSnapshots(C, Snapshots) ==
  LET InputSnap == getLatestSnapshot("main")
      Rejected == [answer |-> FALSE, consumer |-> C]
  IN  IF ~C.TryExistingAST THEN Rejected
      ELSE IF ~InputSnap.has THEN Rejected
      ELSE LET OldOffsetOpt == mappedBackOffset(C.Offset, Snapshots, InputSnap.snap)
           IN  IF OldOffsetOpt.has
                 THEN [answer |-> TRUE,
                       consumer |-> Consumer(OldOffsetOpt.val, C.TryExistingAST,
                                             C.PreviousASTSnaps \o Snapshots)]
                 ELSE Rejected

\* SwiftASTConsumer's default, which RelatedIdConsumer inherits
canUseASTWithSnapshotsDefault(C, Snapshots) == [answer |-> FALSE, consumer |-> C]

-----------------------------------------------------------------------------
(* CursorInfo and the functions that assemble it *)

NoRange == [has |-> FALSE, val |-> <<0, 0>>]

\* a default-constructed CursorInfo
EmptyInfo ==
  [Kind |-> "none", IsCancelled |-> FALSE, DeclarationLoc |-> NoRange,
   Filename |-> "", Ranges |-> <<>>]

CancelledInfo == [EmptyInfo EXCEPT !.IsCancelled = TRUE]

ModuleInfo == [EmptyInfo EXCEPT !.Kind = "module"]

DeclInfo(loc, file) ==
  [EmptyInfo EXCEPT !.Kind = "decl", !.DeclarationLoc = loc, !.Filename = file]

\* the outcome of a pass... function: whether it reports failure, and the
\* Receiver calls it made
PassResult(failed, calls) == [Failed |-> failed, calls |-> calls]

tryRemappingLocIgnoringEnd(Range, Filename, PreviousASTSnaps) ==
  LET LatestSnap == getLatestSnapshot(Filename)
      i == FirstFromSameBuffer(PreviousASTSnaps, LatestSnap.snap, 1)
  IN  IF ~LatestSnap.has THEN Some(Range)
      ELSE IF i = 0 THEN Some(Range)
      ELSE IF PreviousASTSnaps[i].stamp = LatestSnap.snap.stamp THEN Some(Range)
      ELSE LET OptBegin == mapOffsetToNewerSnapshot(Range[1], PreviousASTSnaps[i].stamp,
                                                    LatestSnap.snap.stamp)
           IN  IF ~OptBegin.has THEN None
               ELSE Some(<<OptBegin.val, Range[2]>>)

tryRemappingLocToLatestSnapshot(Range, Filename, PreviousASTSnaps) ==
  LET LatestSnap == getLatestSnapshot(Filename)
      i == FirstFromSameBuffer(PreviousASTSnaps, LatestSnap.snap, 1)
  IN  IF ~LatestSnap.has THEN Some(Range)
      ELSE IF i = 0 THEN Some(Range)
      ELSE IF PreviousASTSnaps[i].stamp = LatestSnap.snap.stamp THEN Some(Range)
      ELSE LET OptBegin == mapOffsetToNewerSnapshot(Range[1], PreviousASTSnaps[i].stamp,
                                                    LatestSnap.snap.stamp)
               OptEnd == mapOffsetToNewerSnapshot(Range[1] + Range[2],
                                                  PreviousASTSnaps[i].stamp,
                                                  LatestSnap.snap.stamp)
           IN  IF ~OptBegin.has THEN None
               ELSE IF ~OptEnd.has THEN None
               ELSE Some(<<OptBegin.val, OptEnd.val - OptBegin.val>>)

passCursorInfoForModule == PassResult(FALSE, <<ModuleInfo>>)

passCursorInfoForDeclIgnoringAvailability(VD, PreviousASTSnaps) ==
  IF VD.loc.has
    THEN LET DeclarationLoc ==
               tryRemappingLocToLatestSnapshot(VD.loc.val, VD.file, PreviousASTSnaps)
         IN  IF ~DeclarationLoc.has
               THEN PassResult(TRUE, <<>>)
               ELSE PassResult(FALSE, <<DeclInfo(DeclarationLoc, VD.file)>>)
    ELSE PassResult(FALSE, <<DeclInfo(NoRange, "")>>)

\* VD: what the function reads of the declaration (unavailable, and the
\* location getLocationInfo reports for it)
passCursorInfoForDecl(VD, PreviousASTSnaps) ==
  IF VD.unavailable THEN PassResult(TRUE, <<>>)
  ELSE IF VD.loc.has
    THEN LET DeclarationLoc ==
               tryRemappingLocToLatestSnapshot(VD.loc.val, VD.file, PreviousASTSnaps)
         IN  IF ~DeclarationLoc.has
               THEN PassResult(TRUE, <<>>)
               ELSE PassResult(FALSE, <<DeclInfo(DeclarationLoc, VD.file)>>)
    ELSE PassResult(FALSE, <<DeclInfo(NoRange, "")>>)

-----------------------------------------------------------------------------
(* walkRelatedDecls and the RelatedName entries of passCursorInfoForDecl.   *)
(* A declaration is what the two read of it: its identity, its base name    *)
(* (getName), its full name (getFullName: base name and argument labels),   *)
(* whether it is an AbstractFunctionDecl, and whether it is unavailable.    *)

RelDecl(id, base, full, isFunc, unavailable) ==
  [id |-> id, base |-> base, full |-> full, isFunc |-> isFunc,
   unavailable |-> unavailable]

NullRelDecl == RelDecl(0, "", "", FALSE, FALSE)

\* the results of the first loop that are kept: available, and not VD itself
RelatedDeclsFound(VD, Results) ==
  LET Kept(RelatedVD) == ~RelatedVD.unavailable /\ RelatedVD.id # VD.id
  IN  SelectSeq(Results, Kept)

NamesSeenByBaseName(VD, Results, Name) ==
  LET Found == RelatedDeclsFound(VD, Results)
  IN  Cardinality({k \in 1..Len(Found) : Found[k].base = VD.base}) + 1

\* NamesSeen[Name] when the first loop has ended
NamesSeen(VD, Results, Name) ==
  LET Found == RelatedDeclsFound(VD, Results)
  IN  (IF VD.full = Name THEN 1 ELSE 0)
        + Cardinality({k \in 1..Len(Found) : Found[k].full = Name})

\* the calls of Fn, in order: the declaration and DuplicateName
walkRelatedDecls(VD, Results) ==
  LET Found == RelatedDeclsFound(VD, Results)
  IN  [k \in 1..Len(Found) |->
         [RelatedDecl |-> Found[k],
          DuplicateName |-> NamesSeen(VD, Results, Found[k].full) > 1]]

\* one RelatedName entry: the declaration's USR and the form of its text
\* ("ArgumentOnly": printed with its parameter types; "DisplayName")
RelatedName(RelatedDecl, DuplicateName) ==
  [usr |-> RelatedDecl.id,
   form |-> IF RelatedDecl.isFunc /\ DuplicateName THEN "ArgumentOnly"
                                                    ELSE "DisplayName"]

\* the RelatedName entries passCursorInfoForDecl writes for VD
passRelatedNames(VD, Results) ==
  LET Calls == walkRelatedDecls(VD, Results)
  IN  [k \in 1..Len(Calls) |-> RelatedName(Calls[k].RelatedDecl, Calls[k].DuplicateName)]

-----------------------------------------------------------------------------
(* What the semantic analyzer reports.  A declaration is represented by     *)
(* what the handlers read of it.                                            *)

Decl(id, kind, op, unavailable, loc, file) ==
  [id |-> id, kind |-> kind, isOperator |-> op, unavailable |-> unavailable,
   loc |-> loc, file |-> file]

NullDecl == Decl("null", "none", FALSE, FALSE, NoRange, "")

\* SemaToken / SwiftInterfaceGenContext::ResolvedEntity
SemaToken(valid, mod, ValueD, CtorTyRef, IsRef, IsKeywordArgument) ==
  [valid |-> valid, Mod |-> mod, ValueD |-> ValueD, CtorTyRef |-> CtorTyRef,
   IsRef |-> IsRef, IsKeywordArgument |-> IsKeywordArgument]

InvalidToken == SemaToken(FALSE, FALSE, NullDecl, NullDecl, FALSE, FALSE)

ModuleToken == SemaToken(TRUE, TRUE, NullDecl, NullDecl, TRUE, FALSE)

\* the (offset, length) ranges inside a text of length n
RangesIn(n) == {<<b, l>> : b \in 0..n, l \in 0..n} \ {<<b, l>> \in (0..n) \X (0..n) : b + l > n}

TypeDecl == Decl("T", "type", FALSE, FALSE, NoRange, "")

\* the declarations a cursor query can resolve to in an AST whose primary
\* buffer has n bytes
CursorDecls(n) ==
  {Decl("f", "func", FALSE, unavailable, NoRange, "") : unavailable \in BOOLEAN} \cup
  {Decl("f", "func", FALSE, FALSE, Some(r), "main") : r \in RangesIn(n)} \cup
  {Decl("f", "func", FALSE, FALSE, Some(<<0, 1>>), "other")}

CursorTokens(n) ==
  {InvalidToken, ModuleToken} \cup
  {SemaToken(TRUE, FALSE, VD, NullDecl, IsRef, FALSE) :
     VD \in CursorDecls(n), IsRef \in BOOLEAN} \cup
  {SemaToken(TRUE, FALSE, VD, TypeDecl, TRUE, FALSE) : VD \in CursorDecls(n)}

\* the declarations a related-identifiers query can resolve to
RelatedDecls ==
  {Decl("f", "func", FALSE, FALSE, NoRange, ""),
   Decl("+", "func", TRUE, FALSE, NoRange, ""),
   Decl("init", "ctor", FALSE, FALSE, NoRange, ""),
   Decl("deinit", "dtor", FALSE, FALSE, NoRange, ""),
   Decl("subscript", "subscript", FALSE, FALSE, NoRange, ""),
   TypeDecl}

RelatedTokens ==
  {InvalidToken, ModuleToken} \cup
  {SemaToken(TRUE, FALSE, VD, NullDecl, IsRef, kw) :
     VD \in RelatedDecls, IsRef \in BOOLEAN, kw \in BOOLEAN} \cup
  {SemaToken(TRUE, FALSE, VD, TypeDecl, TRUE, FALSE) :
     VD \in {D \in RelatedDecls : D.kind = "ctor"}}

-----------------------------------------------------------------------------
(* CursorInfoConsumer::handlePrimaryAST, cancelled, failed; getCursorInfo   *)

\* what a handler did: the Receiver calls it made, and whether it called
\* resolveCursor again
Outcome(calls, retry) == [calls |-> calls, retry |-> retry]

cursorHandlePrimaryASTNoRetry(C, LocInvalid, SemaTok) ==
  IF LocInvalid THEN Outcome(<<EmptyInfo>>, FALSE)
  ELSE IF ~SemaTok.valid THEN Outcome(<<EmptyInfo>>, FALSE)
  ELSE IF SemaTok.Mod THEN Outcome(passCursorInfoForModule.calls, FALSE)
  ELSE LET VD == IF SemaTok.CtorTyRef # NullDecl THEN SemaTok.CtorTyRef
                                                  ELSE SemaTok.ValueD
           r == passCursorInfoForDecl(VD, C.PreviousASTSnaps)
       IN  IF r.Failed
             THEN Outcome(r.calls \o <<EmptyInfo>>, FALSE)
             ELSE Outcome(r.calls, FALSE)

cursorHandlePrimaryAST(C, LocInvalid, SemaTok) ==
  IF LocInvalid THEN Outcome(<<EmptyInfo>>, FALSE)
  ELSE IF ~SemaTok.valid THEN Outcome(<<EmptyInfo>>, FALSE)
  ELSE IF SemaTok.Mod THEN Outcome(passCursorInfoForModule.calls, FALSE)
  ELSE LET VD == IF SemaTok.CtorTyRef # NullDecl THEN SemaTok.CtorTyRef
                                                  ELSE SemaTok.ValueD
           r == passCursorInfoForDecl(VD, C.PreviousASTSnaps)
       IN  IF r.Failed
             THEN IF C.PreviousASTSnaps # <<>>
                    THEN Outcome(r.calls, TRUE)
                    ELSE Outcome(r.calls \o <<EmptyInfo>>, FALSE)
             ELSE Outcome(r.calls, FALSE)

cursorCancelledUnflagged == <<EmptyInfo>>

\* CursorInfoConsumer::cancelled
cursorCancelled == <<CancelledInfo>>

cursorFailedSilently == <<>>

\* CursorInfoConsumer::failed: the Error is logged, not put in the result
cursorFailed == <<EmptyInfo>>

resolveCursorAlwaysTry(Offset, TryExistingAST) == Consumer(Offset, TRUE, <<>>)

\* the consumer resolveCursor creates and hands to processASTAsync
resolveCursor(Offset, TryExistingAST) == Consumer(Offset, TryExistingAST, <<>>)

\* the module-interface branch of getCursorInfo
getCursorInfoForIFaceGen(Entity) ==
  IF Entity.valid
    THEN IF Entity.Mod
           THEN passCursorInfoForModule.calls
           ELSE passCursorInfoForDecl(Entity.ValueD, <<>>).calls
    ELSE <<EmptyInfo>>

-----------------------------------------------------------------------------
(* RelatedIdScanner and RelatedIdConsumer *)

RelatedIdentsInfo(Ranges, IsCancelled) ==
  [EmptyInfo EXCEPT !.Ranges = Ranges, !.IsCancelled = IsCancelled]

\* a site the walker visits: a declaration site (walkToDeclPre) or a
\* reference site (visitDeclReference)
Site(site, D, CtorTyRef, Range) ==
  [site |-> site, D |-> D, CtorTyRef |-> CtorTyRef, Range |-> Range]

VisitedDeclAsWritten(S) == S.D

\* the declaration a visit compares with the target
VisitedDecl(S) ==
  IF S.site = "ref" /\ S.CtorTyRef # "null" THEN S.CtorTyRef ELSE S.D

RECURSIVE Scan(_, _, _, _, _)
\* the walk from site i on; a visit that returns false ends the walk
Scan(Sites, i, Dcl, Ranges, Cancelled) ==
  IF i > Len(Sites) THEN Ranges
  ELSE IF Cancelled THEN Ranges
  ELSE IF VisitedDecl(Sites[i]) = Dcl
         THEN Scan(Sites, i + 1, Dcl, Append(Ranges, Sites[i].Range), Cancelled)
         ELSE Scan(Sites, i + 1, Dcl, Ranges, Cancelled)

relatedActionExcludingCtorRefs(LocInvalid, SemaTok, Sites) ==
  LET VD == IF SemaTok.CtorTyRef # NullDecl THEN SemaTok.CtorTyRef ELSE SemaTok.ValueD
  IN  IF LocInvalid THEN <<>>
      ELSE IF ~SemaTok.valid THEN <<>>
      ELSE IF SemaTok.IsKeywordArgument THEN <<>>
      ELSE IF VD = NullDecl THEN <<>>
      ELSE IF VD.kind \in {"ctor", "dtor", "subscript"} THEN <<>>
      ELSE IF VD.isOperator THEN <<>>
      ELSE Scan(Sites, 1, VD.id, <<>>, FALSE)

\* the Action lambda of handlePrimaryAST: the ranges it leaves in Ranges
relatedAction(LocInvalid, SemaTok, Sites) ==
  LET VD == IF SemaTok.CtorTyRef # NullDecl THEN SemaTok.CtorTyRef ELSE SemaTok.ValueD
  IN  IF LocInvalid THEN <<>>
      ELSE IF ~SemaTok.valid THEN <<>>
      ELSE IF SemaTok.IsKeywordArgument THEN <<>>
      ELSE IF VD = NullDecl THEN <<>>
      ELSE IF ~SemaTok.IsRef /\ VD.kind \in {"ctor", "dtor", "subscript"} THEN <<>>
      ELSE IF VD.isOperator THEN <<>>
      ELSE Scan(Sites, 1, VD.id, <<>>, FALSE)

relatedHandlePrimaryASTSilentWhenEmpty(LocInvalid, SemaTok, Sites) ==
  IF relatedAction(LocInvalid, SemaTok, Sites) = <<>> THEN <<>>
  ELSE <<RelatedIdentsInfo(relatedAction(LocInvalid, SemaTok, Sites), FALSE)>>

relatedHandlePrimaryAST(LocInvalid, SemaTok, Sites) ==
  <<RelatedIdentsInfo(relatedAction(LocInvalid, SemaTok, Sites), FALSE)>>

relatedCancelled == <<RelatedIdentsInfo(<<>>, TRUE)>>

relatedFailed == <<RelatedIdentsInfo(<<>>, FALSE)>>

-----------------------------------------------------------------------------
(* Documents enumerated for the remap driver *)

SeqsUpTo(S, n) == UNION {[1..k -> S] : k \in 0..n}

\* the edit records that apply to a text of length n
UpdatesOn(n, Inserted) ==
  {ReplaceUpdate(off, len, txt) : off \in 0..n, len \in 0..n, txt \in Inserted}

ValidUpdate(txt, Upd) == Upd.ByteOffset + Upd.Length <= Len(txt)

RECURSIVE ChainsFrom(_, _, _)
\* every chain of at most n valid edit records starting from text txt
ChainsFrom(txt, n, Inserted) ==
  IF n = 0 THEN {<<>>}
  ELSE {<<>>} \cup
       UNION {{<<Upd>> \o rest : rest \in ChainsFrom(ApplyReplace(txt, Upd), n - 1, Inserted)} :
                Upd \in {U \in UpdatesOn(Len(txt), Inserted) : ValidUpdate(txt, U)}}

\* Scenario 1: "let x = 1" edited to "let xy = 1"
Scenario1Old == <<"l", "e", "t", " ", "x", " ", "=", " ", "1">>

Scenario1Updates == <<ReplaceUpdate(5, 0, <<"y">>)>>

\* inserted texts of the enumerated edit records
InsertedTexts == {<<>>, <<"y">>, <<"y", "y">>}

RemapDocs ==
  {<<txt, ch>> : txt \in SeqsUpTo({"a"}, MaxOldLen), ch \in {<<>>}} \cup
  UNION {{<<txt, ch>> : ch \in ChainsFrom(txt, MaxUpdates, InsertedTexts)} :
           txt \in SeqsUpTo({"a"}, MaxOldLen)} \cup
  {<<Scenario1Old, Scenario1Updates>>}

-----------------------------------------------------------------------------
(* Inputs enumerated for the queries *)

\* longest snapshot list of an existing AST
MaxSnapshots == 2
\* longest walk of the related-identifier scanner
MaxSites == 2
\* most results of the unqualified lookup, the declaration itself aside
MaxRelated == 2
\* most instructions of the function the specializer runs on
MaxInstrs == 3

PipelineTexts == {<<>>, <<"a", " ", "b">>}

PipelineInserted == {<<>>, <<"a">>, <<" ">>}

\* documents with at most one edit, and one document with two
PipelineDocs ==
  UNION {{<<txt, ch>> : ch \in ChainsFrom(txt, 1, PipelineInserted)} :
           txt \in PipelineTexts} \cup
  {<<<<"a", "b">>, <<ReplaceUpdate(1, 0, <<" ">>), ReplaceUpdate(0, 1, <<"b", "b">>)>>>>}

\* the snapshot lists an existing AST can have been built from
SnapshotLists ==
  SeqsUpTo({Snapshot("main", k) : k \in 0..LatestStamp} \cup {Snapshot("other", 0)},
           MaxSnapshots)

\* declaration sites and reference sites of f, T and T's initializer; a
\* reference to the initializer may be a call through a reference to T
Sites ==
  {Site("decl", D, "null", <<0, 1>>) : D \in {"f", "T", "init"}} \cup
  {Site("ref", D, "null", <<0, 1>>) : D \in {"f", "T", "init"}} \cup
  {Site("ref", "init", "T", <<0, 1>>)}

\* the walks: the sites in the order the walker visits them, each with the
\* range of its position in the source
Walks ==
  {[i \in 1..Len(w) |-> [w[i] EXCEPT !.Range = <<2 * (i - 1), 1>>]] :
     w \in SeqsUpTo(Sites, MaxSites)}

NoOffer == [asked |-> FALSE, Snapshots |-> <<>>, Offset |-> 0, answer |-> FALSE]

\* the AST handed to handlePrimaryAST: built for this request or not, and
\* the stamp of the snapshot of InputFile it was built from
ASTUnit(fresh, stamp) == [fresh |-> fresh, stamp |-> stamp]

ExistingAST(Snapshots) ==
  LET i == FirstFromSameBuffer(Snapshots, Snapshot("main", 0), 1)
  IN  ASTUnit(FALSE, IF i = 0 THEN LatestStamp ELSE Snapshots[i].stamp)

FreshAST == ASTUnit(TRUE, LatestStamp)

\* a handlePrimaryAST call: the AST, the offset the consumer resolves, what
\* the consumer had answered when asked about an existing AST, what the lexer
\* and the resolver reported (the resolver is not run when the location is
\* invalid), the sites of the scope a related-identifiers walk covers, the
\* site before which the caller asked to cancel the query (0: it did not),
\* the Receiver calls the handler made and whether it called resolveCursor
Handled(ast, LocInvalid, SemaTok, walk, cancelAt, out) ==
  [ast |-> ast, Offset |-> consumer.Offset, asked |-> offered.asked,
   answer |-> offered.answer, LocInvalid |-> LocInvalid,
   SemaTok |-> IF LocInvalid THEN InvalidToken ELSE SemaTok,
   walk |-> walk, cancelAt |-> cancelAt, calls |-> out.calls, retry |-> out.retry]

-----------------------------------------------------------------------------
(* The queries *)

RemapIdle ==
  /\ rpc = "idle" /\ rDir = "newer" /\ rOrig = 0 /\ rFirst = None /\ rSecond = None

QueryIdle ==
  /\ docOpen = TRUE /\ reqKind = "none" /\ origOffset = 0 /\ qpc = "idle"
  /\ consumer = NoConsumer /\ offered = NoOffer /\ handled = <<>>
  /\ requests = 0 /\ callbacks = <<>> /\ received = <<>>

-----------------------------------------------------------------------------
(* Remap driver: applies one remap to an offset of the oldest or of the     *)
(* latest snapshot and, when it succeeds, the opposite remap to the result. *)

RelatedDeclsIdle ==
  /\ relpc = "idle" /\ relVD = NullRelDecl /\ relLookup = <<>> /\ relNames = <<>>

SpecializerIdle ==
  /\ spc = "idle" /\ F = <<>> /\ BB = 1 /\ It = 1
  /\ specialized = <<>> /\ DeadApplies = <<>> /\ deleted = <<>> /\ notified = <<>>
  /\ Changed = FALSE /\ invalidated = FALSE

InitRemap ==
  /\ \E d \in RemapDocs : OldText = d[1] /\ Updates = d[2]
  /\ rpc = "start"
  /\ rDir \in {"newer", "older"}
  /\ rOrig \in 0..Len(SnapshotText(IF rDir = "newer" THEN 0 ELSE LatestStamp))
  /\ rFirst = None
  /\ rSecond = None
  /\ QueryIdle
  /\ RelatedDeclsIdle
  /\ SpecializerIdle

MapToNewer ==
  /\ rpc = "start" /\ rDir = "newer"
  /\ rFirst' = mapOffsetToNewerSnapshot(rOrig, 0, LatestStamp)
  /\ rpc' = IF rFirst'.has THEN "mapped" ELSE "done"
  /\ UNCHANGED <<docVars, specializerVars, queryVars, relatedDeclVars, rDir, rOrig, rSecond>>

MapToOlder ==
  /\ rpc = "start" /\ rDir = "older"
  /\ rFirst' = mapOffsetToOlderSnapshot(rOrig, LatestStamp, 0)
  /\ rpc' = IF rFirst'.has THEN "mapped" ELSE "done"
  /\ UNCHANGED <<docVars, specializerVars, queryVars, relatedDeclVars, rDir, rOrig, rSecond>>

MapBackToOlder ==
  /\ rpc = "mapped" /\ rDir = "newer"
  /\ rSecond' = mapOffsetToOlderSnapshot(rFirst.val, LatestStamp, 0)
  /\ rpc' = "done"
  /\ UNCHANGED <<docVars, specializerVars, queryVars, relatedDeclVars, rDir, rOrig, rFirst>>

MapBackToNewer ==
  /\ rpc = "mapped" /\ rDir = "older"
  /\ rSecond' = mapOffsetToNewerSnapshot(rFirst.val, 0, LatestStamp)
  /\ rpc' = "done"
  /\ UNCHANGED <<docVars, specializerVars, queryVars, relatedDeclVars, rDir, rOrig, rFirst>>

NextRemap == MapToNewer \/ MapToOlder \/ MapBackToOlder \/ MapBackToNewer

SpecRemap == InitRemap /\ [][NextRemap]_vars

-----------------------------------------------------------------------------
(* The cursor-info and related-identifier queries against the AST manager *)

Init ==
  /\ \E d \in PipelineDocs : OldText = d[1] /\ Updates = d[2]
  /\ docOpen \in {TRUE} \cup {b \in {FALSE} : Updates = <<>>}
  \* a related-identifiers query reads nothing of the snapshot chain
  /\ reqKind \in {"cursor"} \cup {k \in {"related"} : OldText = <<>> /\ Updates = <<>> /\ docOpen}
  /\ origOffset \in 0..Len(SnapshotText(LatestStamp))
  /\ qpc = "start"
  /\ consumer = NoConsumer /\ offered = NoOffer /\ handled = <<>>
  /\ requests = 0 /\ callbacks = <<>> /\ received = <<>>
  /\ RemapIdle
  /\ RelatedDeclsIdle
  /\ SpecializerIdle

\* SwiftLangSupport::getCursorInfo
GetCursorInfo ==
  /\ qpc = "start" /\ reqKind = "cursor"
  /\ \/ \E Entity \in CursorTokens(Len(SnapshotText(LatestStamp))) :
          \* InputFile is a generated module-interface document
          /\ received' = received \o getCursorInfoForIFaceGen(Entity)
          /\ qpc' = "done"
          /\ UNCHANGED <<consumer, requests>>
     \/ \* no invocation could be created
        /\ received' = Append(received, EmptyInfo)
        /\ qpc' = "done"
        /\ UNCHANGED <<consumer, requests>>
     \/ /\ consumer' = resolveCursor(origOffset, TRUE)
        /\ requests' = requests + 1
        /\ qpc' = "pending"
        /\ UNCHANGED received
  /\ UNCHANGED <<docVars, specializerVars, remapVars, relatedDeclVars, reqKind, origOffset, offered, handled, callbacks>>

\* SwiftLangSupport::findRelatedIdentifiersInFile
FindRelatedIdentifiersInFile ==
  /\ qpc = "start" /\ reqKind = "related"
  /\ \/ \* no invocation could be created
        /\ received' = received \o relatedFailed
        /\ qpc' = "done"
        /\ UNCHANGED <<consumer, requests>>
     \/ /\ consumer' = Consumer(origOffset, FALSE, <<>>)
        /\ requests' = requests + 1
        /\ qpc' = "pending"
        /\ UNCHANGED received
  /\ UNCHANGED <<docVars, specializerVars, remapVars, relatedDeclVars, reqKind, origOffset, offered, handled, callbacks>>

BrokerUsesRejected(answer) == TRUE

\* the broker commits to an existing AST only when the consumer accepted it
BrokerUsesExisting(answer) == answer

\* the broker has an AST built from older inputs and asks the consumer
BrokerOfferExisting ==
  /\ qpc = "pending"
  \* RelatedIdConsumer answers false whatever the list: short lists suffice
  /\ \E Snapshots \in {L \in SnapshotLists : reqKind = "cursor" \/ Len(L) <= 1} :
       LET r == IF reqKind = "cursor"
                  THEN canUseASTWithSnapshots(consumer, Snapshots)
                  ELSE canUseASTWithSnapshotsDefault(consumer, Snapshots)
       IN  /\ consumer' = r.consumer
           /\ offered' = [asked |-> TRUE, Snapshots |-> Snapshots,
                          Offset |-> consumer.Offset, answer |-> r.answer]
           /\ qpc' = IF BrokerUsesExisting(r.answer) THEN "accepted" ELSE "building"
  /\ UNCHANGED <<docVars, specializerVars, remapVars, relatedDeclVars, reqKind, origOffset, handled, requests, callbacks,
                 received>>

\* the broker has no AST to offer and builds one
BrokerBuild ==
  /\ qpc = "pending"
  /\ qpc' = "building"
  /\ UNCHANGED <<docVars, specializerVars, remapVars, relatedDeclVars, reqKind, origOffset, consumer, offered, handled,
                 requests, callbacks, received>>

\* handlePrimaryAST of the consumer in flight
HandlePrimaryAST(ast) ==
  /\ callbacks' = Append(callbacks, "handlePrimaryAST")
  /\ \/ /\ reqKind = "cursor"
        /\ \E LocInvalid \in BOOLEAN,
              SemaTok \in CursorTokens(Len(SnapshotText(ast.stamp))) :
             LET out == cursorHandlePrimaryAST(consumer, LocInvalid, SemaTok)
             IN  /\ handled' = Append(handled,
                                      Handled(ast, LocInvalid, SemaTok, <<>>, 0, out))
                 /\ received' = received \o out.calls
                 /\ IF out.retry
                      THEN /\ consumer' = resolveCursor(consumer.Offset, FALSE)
                           /\ offered' = NoOffer
                           /\ requests' = requests + 1
                           /\ qpc' = "pending"
                      ELSE /\ qpc' = "done"
                           /\ UNCHANGED <<consumer, offered, requests>>
     \/ /\ reqKind = "related"
        \* nothing conveys the caller's wish to cancel to the handler
        /\ \E LocInvalid \in BOOLEAN, SemaTok \in RelatedTokens, walk \in Walks :
             \E cancelAt \in 0..Len(walk) :
               LET calls == relatedHandlePrimaryAST(LocInvalid, SemaTok, walk)
               IN  /\ handled' = Append(handled,
                                        Handled(ast, LocInvalid, SemaTok, walk, cancelAt,
                                                Outcome(calls, FALSE)))
                   /\ received' = received \o calls
        /\ qpc' = "done"
        /\ UNCHANGED <<consumer, offered, requests>>
  /\ UNCHANGED <<docVars, specializerVars, remapVars, relatedDeclVars, reqKind, origOffset>>

BrokerDeliverExisting ==
  /\ qpc = "accepted"
  /\ HandlePrimaryAST(ExistingAST(offered.Snapshots))

BrokerDeliverFresh ==
  /\ qpc = "building"
  /\ HandlePrimaryAST(FreshAST)

\* the request is cancelled: the consumer's cancelled()
BrokerCancel ==
  /\ qpc \in {"pending", "building"}
  /\ received' = received \o (IF reqKind = "cursor" THEN cursorCancelled ELSE relatedCancelled)
  /\ callbacks' = Append(callbacks, "cancelled")
  /\ qpc' = "done"
  /\ UNCHANGED <<docVars, specializerVars, remapVars, relatedDeclVars, reqKind, origOffset, consumer, offered, handled,
                 requests>>

\* the build fails: the consumer's failed(Error)
BrokerFail ==
  /\ qpc = "building"
  /\ received' = received \o (IF reqKind = "cursor" THEN cursorFailed ELSE relatedFailed)
  /\ callbacks' = Append(callbacks, "failed")
  /\ qpc' = "done"
  /\ UNCHANGED <<docVars, specializerVars, remapVars, relatedDeclVars, reqKind, origOffset, consumer, offered, handled,
                 requests>>

Next ==
  \/ GetCursorInfo
  \/ FindRelatedIdentifiersInFile
  \/ BrokerOfferExisting
  \/ BrokerBuild
  \/ BrokerDeliverExisting
  \/ BrokerDeliverFresh
  \/ BrokerCancel
  \/ BrokerFail

Spec == Init /\ [][Next]_vars

-----------------------------------------------------------------------------
(* The related names of a declaration: the lookup's results are drawn from  *)
(* declarations named "foo" and the entries are written for them.           *)

\* what a declaration named "foo" can be: a function with one of two
\* argument labels, or something that is not a function
LookupKinds ==
  {[full |-> full, isFunc |-> TRUE, unavailable |-> u] :
     full \in {"foo(a:)", "foo(b:)"}, u \in BOOLEAN} \cup
  {[full |-> "foo", isFunc |-> FALSE, unavailable |-> u] : u \in BOOLEAN}

\* the declarations the response can be assembled for (they are available)
LookupTargets ==
  {RelDecl(0, "foo", K.full, K.isFunc, FALSE) : K \in {L \in LookupKinds : ~L.unavailable}}

\* s with x put before its element p (p = Len(s) + 1: at the end)
InsertAt(s, p, x) == SubSeq(s, 1, p - 1) \o <<x>> \o SubSeq(s, p, Len(s))

\* the results of looking up "foo": distinct declarations, VD among them or not
LookupResults(VD) ==
  LET Others == {[k \in 1..Len(w) |->
                    RelDecl(k, "foo", w[k].full, w[k].isFunc, w[k].unavailable)] :
                 w \in SeqsUpTo(LookupKinds, MaxRelated)}
  IN  Others \cup UNION {{InsertAt(r, p, VD) : p \in 1..(Len(r) + 1)} : r \in Others}

InitRelatedDecls ==
  /\ relpc = "start"
  /\ relVD \in LookupTargets
  /\ relLookup \in LookupResults(relVD)
  /\ relNames = <<>>
  /\ OldText = <<>> /\ Updates = <<>>
  /\ QueryIdle
  /\ RemapIdle
  /\ SpecializerIdle

\* the walkRelatedDecls call of passCursorInfoForDecl
PassRelatedNames ==
  /\ relpc = "start"
  /\ relNames' = passRelatedNames(relVD, relLookup)
  /\ relpc' = "done"
  /\ UNCHANGED <<docVars, specializerVars, remapVars, queryVars, relVD, relLookup>>

NextRelatedDecls == PassRelatedNames

SpecRelatedDecls == InitRelatedDecls /\ [][NextRelatedDecls]_vars

-----------------------------------------------------------------------------
(* GenericSpecializer: run and specializeAppliesInFunction.  An instruction *)
(* is what the driver reads of it: whether it is an apply site, whether the *)
(* apply has substitutions, and what getReferencedFunction gives ("null",   *)
(* a "declaration" without a body, or a "definition").                      *)

Instruction(id, apply, hasSubstitutions, callee) ==
  [id |-> id, apply |-> apply, hasSubstitutions |-> hasSubstitutions,
   callee |-> callee]

EligibleWithoutBody(I) ==
  /\ I.apply /\ I.hasSubstitutions
  /\ I.callee # "null"

\* the instruction is not skipped: an apply with substitutions whose callee
\* is statically known and has a body
Eligible(I) ==
  /\ I.apply /\ I.hasSubstitutions
  /\ I.callee # "null" /\ I.callee = "definition"

\* the instructions of the function, in order
RECURSIVE Flatten(_)
Flatten(Blocks) ==
  IF Blocks = <<>> THEN <<>> ELSE Head(Blocks) \o Flatten(Tail(Blocks))

RECURSIVE Reverse(_)
Reverse(s) == IF s = <<>> THEN <<>> ELSE Append(Reverse(Tail(s)), Head(s))

\* the elements of a sequence
Elems(s) == {s[k] : k \in 1..Len(s)}

\* what one call of trySpecializeApplyOfGeneric can leave behind: the
\* instructions it appended to DeadApplies (the apply it was given, and
\* possibly one more apply site of the function that is not reported yet)
\* and the functions it appended to NewFunctions
SpecializerOutcomes(I, Fn, Reported) ==
  LET Others == {J \in Elems(Flatten(Fn)) :
                   J.apply /\ ~Eligible(J) /\ J.id # I.id /\ J.id \notin Reported}
      Dead == {<<>>, <<I.id>>} \cup {<<J.id, I.id>> : J \in Others}
      New == {<<>>, <<"specialized">>, <<"specialized", "thunk">>}
  IN  {[Dead |-> d, NewFunctions |-> n] : d \in Dead, n \in New}

GenericSpecializerRunAlways(Result) == TRUE

\* GenericSpecializer::run: whether invalidateAnalysis is called, given the
\* result of specializeAppliesInFunction
GenericSpecializerRun(Result) == Result

\* what an instruction can be
InstructionKinds ==
  {<<FALSE, FALSE, "null">>, <<TRUE, FALSE, "definition">>,
   <<TRUE, TRUE, "null">>, <<TRUE, TRUE, "declaration">>,
   <<TRUE, TRUE, "definition">>}

\* the instructions w in one block (k = Len(w)) or cut into two after the k-th
CutAt(w, k) ==
  IF k = Len(w) THEN <<w>> ELSE <<SubSeq(w, 1, k), SubSeq(w, k + 1, Len(w))>>

\* the functions: one or two non-empty blocks, instructions numbered in order
Functions ==
  LET Bodies == {[k \in 1..Len(w) |-> Instruction(k, w[k][1], w[k][2], w[k][3])] :
                   w \in SeqsUpTo(InstructionKinds, MaxInstrs) \ {<<>>}}
  IN  UNION {{CutAt(w, k) : k \in 1..Len(w)} : w \in Bodies}

InitSpecializer ==
  /\ spc = "run"
  /\ F \in Functions
  /\ BB = 1 /\ It = 1
  /\ specialized = <<>> /\ DeadApplies = <<>> /\ deleted = <<>> /\ notified = <<>>
  /\ Changed = FALSE /\ invalidated = FALSE
  /\ OldText = <<>> /\ Updates = <<>>
  /\ QueryIdle
  /\ RemapIdle
  /\ RelatedDeclsIdle

otherVars == <<docVars, remapVars, queryVars, relatedDeclVars>>

\* one iteration of the inner loop on an instruction that is skipped
SkipInstruction ==
  /\ spc = "run" /\ BB <= Len(F) /\ It <= Len(F[BB])
  /\ ~Eligible(F[BB][It])
  /\ It' = It + 1
  /\ UNCHANGED <<otherVars, spc, F, BB, specialized, DeadApplies, deleted, notified,
                 Changed, invalidated>>

\* one iteration of the inner loop on a call that can be specialized
SpecializeApply ==
  /\ spc = "run" /\ BB <= Len(F) /\ It <= Len(F[BB])
  /\ LET I == F[BB][It]
     IN  /\ Eligible(I)
         /\ \E out \in SpecializerOutcomes(I, F, Elems(DeadApplies)) :
              /\ specialized' = Append(specialized,
                                        [site |-> I.id, Dead |-> out.Dead,
                                         NewFunctions |-> out.NewFunctions])
              /\ DeadApplies' = DeadApplies \o out.Dead
              /\ notified' = notified \o
                              Reverse([k \in 1..Len(out.NewFunctions) |->
                                         <<I.id, out.NewFunctions[k]>>])
  /\ It' = It + 1
  /\ UNCHANGED <<otherVars, spc, F, BB, deleted, Changed, invalidated>>

\* the inner loop ends: the outer loop goes to the next block
NextBlock ==
  /\ spc = "run" /\ BB <= Len(F) /\ It > Len(F[BB])
  /\ BB' = BB + 1 /\ It' = 1
  /\ UNCHANGED <<otherVars, spc, F, specialized, DeadApplies, deleted, notified,
                 Changed, invalidated>>

\* one iteration of the loop that removes the dead applies
RemoveDeadApply ==
  /\ spc = "run" /\ BB > Len(F) /\ DeadApplies # <<>>
  /\ LET AI == DeadApplies[Len(DeadApplies)]
     IN  /\ DeadApplies' = SubSeq(DeadApplies, 1, Len(DeadApplies) - 1)
         /\ deleted' = Append(deleted, AI)
  /\ Changed' = TRUE
  /\ UNCHANGED <<otherVars, spc, F, BB, It, specialized, notified, invalidated>>

\* specializeAppliesInFunction returns Changed and run acts on it
Return ==
  /\ spc = "run" /\ BB > Len(F) /\ DeadApplies = <<>>
  /\ invalidated' = GenericSpecializerRun(Changed)
  /\ spc' = "done"
  /\ UNCHANGED <<otherVars, F, BB, It, specialized, DeadApplies, deleted, notified,
                 Changed>>

NextSpecializer ==
  \/ SkipInstruction
  \/ SpecializeApply
  \/ NextBlock
  \/ RemoveDeadApply
  \/ Return

SpecSpecializer == InitSpecializer /\ [][NextSpecializer]_vars

-----------------------------------------------------------------------------
(* Properties of the offset remapper (checked under SpecRemap) *)

\* the first remap has been applied
FirstRemapDone == rpc \in {"mapped", "done"}

\* running offset of the forward replay before edit i+1, or -1 once some
\* edit's removed span contained it
ForwardRun ==
  LET run[i \in 0..Len(Updates)] ==
        IF i = 0 THEN rOrig
        ELSE LET p == run[i - 1]
                 U == Updates[i]
             IN  IF p = -1 THEN -1
                 ELSE IF U.ByteOffset <= p /\ p < U.ByteOffset + U.Length THEN -1
                 ELSE IF U.ByteOffset <= p THEN p + Len(U.Text) - U.Length
                 ELSE p
  IN  run

\* running offset of the backward replay before edit j (edits Len(Updates)..j+1
\* undone), or -1 once some edit's inserted span contained it
BackwardRun ==
  LET n == Len(Updates)
      run[j \in 0..n] ==
        IF j = n THEN rOrig
        ELSE LET p == run[j + 1]
                 U == Updates[j + 1]
             IN  IF p = -1 THEN -1
                 ELSE IF U.ByteOffset <= p /\ p < U.ByteOffset + Len(U.Text) THEN -1
                 ELSE IF U.ByteOffset <= p THEN p + U.Length - Len(U.Text)
                 ELSE p
  IN  run

\* the edits at which the forward replay reports "offset removed"
ForwardFailsAt == {i \in 1..Len(Updates) : ForwardRun[i - 1] # -1 /\ ForwardRun[i] = -1}

\* the edits at which the backward replay reports "offset inserted"
BackwardFailsAt == {j \in 1..Len(Updates) : BackwardRun[j] # -1 /\ BackwardRun[j - 1] = -1}

\* C1: whenever forward remap of an offset of the older snapshot succeeds,
\* backward remap of the result over the same chain succeeds and gives the
\* original offset back.
RemapRoundTrip ==
  (rpc = "done" /\ rDir = "newer" /\ rFirst.has) =>
     (rSecond.has /\ rSecond.val = rOrig)

RemapRoundTripWitness ==
  /\ rpc = "done" /\ rDir = "newer" /\ rFirst.has
  /\ Len(Updates) = 2
  /\ rFirst.val # rOrig
  /\ rSecond = Some(rOrig)

\* C2 as stated: a running offset equal to an edit's start offset is never
\* reported as inside that edit, by either direction.
BoundaryNeverInside ==
  FirstRemapDone =>
    /\ rDir = "newer" => \A i \in ForwardFailsAt : ForwardRun[i - 1] # Updates[i].ByteOffset
    /\ rDir = "older" => \A j \in BackwardFailsAt : BackwardRun[j] # Updates[j].ByteOffset

\* C2 amended: a running offset equal to an edit's start offset is reported
\* as inside the edit exactly when the span in question is not empty (the
\* removed text for forward remap, the inserted text for backward remap),
\* and a running offset equal to the end of the span is never inside it.
BoundaryInsideIffNonEmpty ==
  FirstRemapDone =>
    /\ rDir = "newer" =>
         \A i \in 1..Len(Updates) :
            LET p == ForwardRun[i - 1]
                U == Updates[i]
            IN  /\ (p # -1 /\ p = U.ByteOffset) =>
                      /\ (i \in ForwardFailsAt) <=> (U.Length > 0)
                      /\ U.Length > 0 => ~rFirst.has
                /\ (p # -1 /\ p = U.ByteOffset + U.Length) =>
                      mapOffsetToNewerSnapshot(rOrig, 0, i).has
    /\ rDir = "older" =>
         \A j \in 1..Len(Updates) :
            LET p == BackwardRun[j]
                U == Updates[j]
            IN  /\ (p # -1 /\ p = U.ByteOffset) =>
                      /\ (j \in BackwardFailsAt) <=> (Len(U.Text) > 0)
                      /\ Len(U.Text) > 0 => ~rFirst.has
                /\ (p # -1 /\ p = U.ByteOffset + Len(U.Text)) =>
                      mapOffsetToOlderSnapshot(rOrig, LatestStamp, j - 1).has

BoundaryInsideWitness ==
  /\ rpc = "done" /\ rDir = "newer" /\ ~rFirst.has
  /\ \E i \in ForwardFailsAt : ForwardRun[i - 1] = Updates[i].ByteOffset /\ i = 2

\* C3: forward remap replays the edits in chain order against the running
\* offset; it fails exactly when some edit's removed span contains the
\* running offset, and otherwise returns the running offset after the last
\* edit, each edit at or before it having moved it by inserted - removed.
ForwardReplaysInOrder ==
  (FirstRemapDone /\ rDir = "newer") =>
     /\ ~rFirst.has <=> ForwardFailsAt # {}
     /\ rFirst.has => rFirst.val = ForwardRun[Len(Updates)]

ForwardReplayWitness ==
  /\ rpc = "mapped" /\ rDir = "newer"
  /\ Len(Updates) = 2
  /\ Updates[1].ByteOffset <= rOrig
  /\ Updates[2].ByteOffset > ForwardRun[1]
  /\ rFirst = Some(rOrig + Len(Updates[1].Text) - Updates[1].Length)
  /\ rFirst.val # rOrig

\* C4: backward remap undoes the edits in reverse chain order against the
\* running offset; it fails exactly when some edit's inserted span contains
\* the running offset, and otherwise returns the running offset after the
\* first edit was undone, each edit at or before it having moved it by
\* removed - inserted.
BackwardUndoesInReverse ==
  (FirstRemapDone /\ rDir = "older") =>
     /\ ~rFirst.has <=> BackwardFailsAt # {}
     /\ rFirst.has => rFirst.val = BackwardRun[0]

BackwardUndoWitness ==
  /\ rpc = "mapped" /\ rDir = "older"
  /\ Len(Updates) = 2
  /\ Updates[2].ByteOffset <= rOrig
  /\ Updates[1].ByteOffset <= BackwardRun[1]
  /\ Updates[1].Length # Len(Updates[1].Text)
  /\ Updates[2].Length # Len(Updates[2].Text)
  /\ rFirst.has

\* the remap driver has run the first remap on Scenario 1's document
Scenario1Mapped(dir, off) ==
  /\ OldText = Scenario1Old /\ Updates = Scenario1Updates
  /\ FirstRemapDone /\ rDir = dir /\ rOrig = off

\* C5 as stated: in Scenario 1, forward remap of offset 5 gives 5.
Scenario1ForwardGives5 ==
  Scenario1Mapped("newer", 5) => rFirst = Some(5)

\* C5 amended: in Scenario 1, forward remap of offset 5 succeeds and gives 6
\* (the edit starts at the offset, so the inserted "y" moves it by one).
Scenario1ForwardGives6 ==
  Scenario1Mapped("newer", 5) => rFirst = Some(6)

Scenario1ForwardWitness ==
  /\ Scenario1Mapped("newer", 5)
  /\ SnapshotText(1) = <<"l", "e", "t", " ", "x", "y", " ", "=", " ", "1">>

\* C6 as stated: in Scenario 1, backward remap of 7 gives 6 and backward
\* remap of 6 fails as lying inside the inserted text.
Scenario1BackwardFailsAt6 ==
  /\ Scenario1Mapped("older", 7) => rFirst = Some(6)
  /\ Scenario1Mapped("older", 6) => ~rFirst.has

\* C6 amended: in Scenario 1, backward remap of 7 gives 6, backward remap of
\* 6 succeeds and gives 5, and it is offset 5 (the inserted "y") whose
\* backward remap fails.
Scenario1BackwardFailsAt5 ==
  /\ Scenario1Mapped("older", 7) => rFirst = Some(6)
  /\ Scenario1Mapped("older", 6) => rFirst = Some(5)
  /\ Scenario1Mapped("older", 5) => ~rFirst.has

Scenario1BackwardWitness ==
  /\ Scenario1Mapped("older", 6)
  /\ SnapshotText(1)[6] = "y"
  /\ rpc = "mapped"

-----------------------------------------------------------------------------
(* Properties of the queries (checked under Spec) *)

\* C7: every getCursorInfo call invokes the Receiver exactly once: never
\* twice, and once the call and its requests have completed, once.
CursorDeliversExactlyOnce ==
  reqKind = "cursor" =>
     /\ Len(received) <= 1
     /\ qpc = "done" => Len(received) = 1

\* C8: every findRelatedIdentifiersInFile call invokes the Receiver exactly
\* once: never twice, and once the call and its request have completed, once.
RelatedDeliversExactlyOnce ==
  reqKind = "related" =>
     /\ Len(received) <= 1
     /\ qpc = "done" => Len(received) = 1

RelatedDeliveredWitness ==
  /\ reqKind = "related" /\ qpc = "done"
  /\ Len(handled) = 1
  /\ Len(received) = 1
  /\ Len(received[1].Ranges) = 2

\* C9: an existing AST (in particular one built from a snapshot older than
\* the latest) is passed to handlePrimaryAST only if canUseASTWithSnapshots
\* answered true for it in the same request, and after an answer of false
\* the AST passed for that request is a fresh build.
NoStaleWithoutAcceptance ==
  /\ qpc = "accepted" => (offered.asked /\ offered.answer)
  /\ \A i \in 1..Len(handled) :
        LET h == handled[i]
        IN  /\ ~h.ast.fresh => (h.asked /\ h.answer)
            /\ h.ast.stamp < LatestStamp => (h.asked /\ h.answer)
            /\ (h.asked /\ ~h.answer) => (h.ast.fresh /\ h.ast.stamp = LatestStamp)

NoStaleWithoutAcceptanceWitness ==
  /\ reqKind = "cursor"
  /\ Len(handled) = 2
  /\ ~handled[1].ast.fresh /\ handled[1].ast.stamp < LatestStamp /\ handled[1].answer
  /\ handled[2].asked /\ ~handled[2].answer /\ handled[2].ast.fresh

\* the snapshot the last negotiation examined: the first of the offered list
\* that is from the document's buffer (0 when there is none)
Candidate == FirstFromSameBuffer(offered.Snapshots, Snapshot("main", 0), 1)

\* the last negotiation had a candidate with another stamp than the latest
\* snapshot, and the offset could be mapped back to it
NegotiationRemapped ==
  /\ reqKind = "cursor" /\ offered.asked /\ docOpen
  /\ Candidate # 0
  /\ offered.Snapshots[Candidate].stamp # LatestStamp
  /\ mapOffsetToOlderSnapshot(offered.Offset, LatestStamp,
                              offered.Snapshots[Candidate].stamp).has

NewToken == getTokenAt(SnapshotText(LatestStamp), offered.Offset)

OldToken ==
  getTokenAt(SnapshotText(offered.Snapshots[Candidate].stamp),
             mapOffsetToOlderSnapshot(offered.Offset, LatestStamp,
                                      offered.Snapshots[Candidate].stamp).val)

\* C10: when the candidate's stamp differs from the latest stamp and the
\* offset remap succeeds, canUseASTWithSnapshots answers false if the token
\* at the query offset in the latest snapshot differs from the token at the
\* remapped offset in the candidate, or if either token text is empty.
IdentityGuardRejects ==
  (NegotiationRemapped /\ (NewToken # OldToken \/ NewToken = <<>> \/ OldToken = <<>>))
     => ~offered.answer

IdentityGuardWitness ==
  /\ NegotiationRemapped
  /\ qpc = "building"
  /\ consumer.TryExistingAST
  /\ NewToken # <<>> /\ OldToken # <<>> /\ NewToken # OldToken
  /\ ~offered.answer


-----------------------------------------------------------------------------
(* Properties of the retry and of the failure paths (checked under Spec) *)

\* the declaration an attempt of the cursor handler assembled a response for
AttemptVD(h) ==
  IF h.SemaTok.CtorTyRef # NullDecl THEN h.SemaTok.CtorTyRef ELSE h.SemaTok.ValueD

\* the attempt resolved a declaration (not an invalid location, an invalid
\* token or a module)
AttemptOnDecl(h) == ~h.LocInvalid /\ h.SemaTok.valid /\ ~h.SemaTok.Mod

\* the snapshots the consumer had accepted when the attempt ran, as far as
\* the remap of a location reads them
AttemptSnaps(h) == IF h.answer THEN <<Snapshot("main", h.ast.stamp)>> ELSE <<>>

\* assembling the declaration response failed in the attempt
AssemblyFailed(h) ==
  AttemptOnDecl(h) /\ passCursorInfoForDecl(AttemptVD(h), AttemptSnaps(h)).Failed

\* C11: when assembling the declaration response fails on an accepted stale
\* analysis the handler answers nothing and issues one more request with
\* reuse disabled; when it fails with no stale analysis accepted it delivers
\* an empty result; a query issues at most two requests, and the attempt of
\* the retry never retries.
SingleRetry ==
  reqKind = "cursor" =>
    /\ requests <= 2
    /\ Len(handled) <= 2
    /\ requests = 2 =>
          /\ ~consumer.TryExistingAST /\ consumer.PreviousASTSnaps = <<>>
          /\ handled[1].retry
    /\ \A i \in 1..Len(handled) :
         LET h == handled[i]
         IN  /\ AssemblyFailed(h) /\ h.answer => h.retry /\ h.calls = <<>>
             /\ AssemblyFailed(h) /\ ~h.answer => ~h.retry /\ h.calls = <<EmptyInfo>>
             /\ h.retry => i = 1 /\ AssemblyFailed(h) /\ h.answer
             /\ i = 2 => ~h.answer /\ h.ast.fresh /\ ~h.retry

\* the retry's attempt on the fresh analysis failed as well, and the query
\* ended there with an empty result
SingleRetryWitness ==
  /\ reqKind = "cursor" /\ qpc = "done"
  /\ requests = 2 /\ Len(handled) = 2
  /\ AssemblyFailed(handled[1]) /\ handled[1].answer
  /\ AssemblyFailed(handled[2])
  /\ received = <<EmptyInfo>>

\* the attempt resolved a declaration that is unavailable
AttemptUnavailable(h) == AttemptOnDecl(h) /\ AttemptVD(h).unavailable

\* C12 as stated: a cursor query whose offset resolves to an unavailable
\* declaration delivers an empty result and issues no request beyond the
\* first, whether the first analysis was an accepted existing one or fresh.
UnavailableNeverRebuilds ==
  reqKind = "cursor" /\ handled # <<>> /\ AttemptUnavailable(handled[1]) =>
    /\ requests = 1
    /\ received = <<EmptyInfo>>

\* C12 amended: an attempt that resolves to an unavailable declaration on a
\* fresh analysis (the first build's or the retry's) delivers an empty result
\* and ends the query with no further request; on an accepted existing
\* analysis it delivers nothing and issues exactly one further request, with
\* reuse disabled.
UnavailableRebuildsOnlyIfStale ==
  reqKind = "cursor" =>
    \A i \in 1..Len(handled) :
      LET h == handled[i]
      IN  AttemptUnavailable(h) =>
            IF h.answer
              THEN /\ i = 1 /\ h.calls = <<>> /\ h.retry
                   /\ requests = 2 /\ ~consumer.TryExistingAST
                   /\ qpc # "done" => received = <<>>
              ELSE /\ h.ast.fresh /\ h.calls = <<EmptyInfo>> /\ ~h.retry
                   /\ requests = i /\ qpc = "done"
                   /\ received = <<EmptyInfo>>

\* the stale attempt resolved an unavailable declaration, a second request
\* was made, and its fresh analysis resolved a declaration that was delivered
UnavailableRebuildsWitness ==
  /\ reqKind = "cursor" /\ qpc = "done"
  /\ Len(handled) = 2
  /\ AttemptUnavailable(handled[1]) /\ handled[1].answer
  /\ requests = 2
  /\ Len(received) = 1 /\ received[1].Kind = "decl"

\* the attempt ran on an accepted existing analysis and forward-remapping the
\* begin or the end of the declaration's location to the latest snapshot
\* failed
AttemptRemapFailed(h) ==
  /\ AttemptOnDecl(h) /\ ~AttemptVD(h).unavailable
  /\ AttemptVD(h).loc.has /\ AttemptVD(h).file = "main"
  /\ docOpen /\ h.answer /\ h.ast.stamp # LatestStamp
  /\ LET Range == AttemptVD(h).loc.val
     IN  \/ ~mapOffsetToNewerSnapshot(Range[1], h.ast.stamp, LatestStamp).has
         \/ ~mapOffsetToNewerSnapshot(Range[1] + Range[2], h.ast.stamp, LatestStamp).has

\* C13 as stated: when a stale analysis was accepted, an empty result reaches
\* the caller only after a retry; no failure of the stale attempt is
\* surfaced as empty directly.
EmptyOnlyAfterRetry ==
  (/\ reqKind = "cursor" /\ handled # <<>> /\ handled[1].answer
   /\ \E k \in 1..Len(received) : received[k] = EmptyInfo)
  => (requests = 2 /\ handled[1].retry)

\* C13 amended: when a stale analysis was accepted, an unavailable
\* declaration or a failed location remap on the stale attempt is never
\* surfaced as empty directly (the handler delivers nothing and retries, and
\* an empty result can come only from the retry's request), while an invalid
\* token start or an invalid resolved token on the stale attempt is
\* surfaced as empty directly, with no retry.
StaleFailureSurfacing ==
  reqKind = "cursor" /\ handled # <<>> /\ handled[1].answer =>
    LET h == handled[1]
    IN  /\ AttemptUnavailable(h) \/ AttemptRemapFailed(h) =>
              /\ h.calls = <<>> /\ h.retry /\ requests = 2
              /\ received # <<>> =>
                    /\ qpc = "done" /\ Len(callbacks) = 2
                    /\ received[1] = EmptyInfo =>
                          \/ callbacks[2] = "failed"
                          \/ /\ Len(handled) = 2 /\ handled[2].ast.fresh
                             /\ handled[2].calls = <<EmptyInfo>>
        /\ h.LocInvalid \/ ~h.SemaTok.valid =>
              /\ h.calls = <<EmptyInfo>> /\ ~h.retry
              /\ requests = 1 /\ received = <<EmptyInfo>>
        /\ h.retry => AttemptUnavailable(h) \/ AttemptRemapFailed(h)

\* the location remap failed on the stale attempt, and the retry's fresh
\* analysis resolved an unavailable declaration: empty after exhaustion
StaleFailureWitness ==
  /\ reqKind = "cursor" /\ qpc = "done"
  /\ Len(handled) = 2
  /\ handled[1].answer /\ AttemptRemapFailed(handled[1])
  /\ AttemptUnavailable(handled[2])
  /\ received = <<EmptyInfo>>

-----------------------------------------------------------------------------
(* Properties of the cancelled and failed callbacks (checked under Spec) *)

\* the three kinds of delivered result
IsCancelledResult(Info) == Info = CancelledInfo

IsEmptyResult(Info) == Info = EmptyInfo

IsFullResult(Info) ==
  ~Info.IsCancelled /\ (Info.Kind # "none" \/ Info.Ranges # <<>>)

\* C14: a request the broker cancels (of a cursor or a related-identifiers
\* query, the retry's included) delivers a result with IsCancelled set; every
\* result delivered on any other path has IsCancelled false; every delivered
\* result is exactly one of full, empty and cancelled.
CancellationDistinct ==
  /\ \A k \in 1..Len(received) :
       /\ received[k].IsCancelled <=>
            /\ k = Len(received)
            /\ callbacks # <<>> /\ callbacks[Len(callbacks)] = "cancelled"
       /\ \/ IsCancelledResult(received[k]) /\ ~IsEmptyResult(received[k])
                                            /\ ~IsFullResult(received[k])
          \/ ~IsCancelledResult(received[k]) /\ IsEmptyResult(received[k])
                                             /\ ~IsFullResult(received[k])
          \/ ~IsCancelledResult(received[k]) /\ ~IsEmptyResult(received[k])
                                             /\ IsFullResult(received[k])
  /\ callbacks # <<>> /\ callbacks[Len(callbacks)] = "cancelled" =>
       /\ qpc = "done" /\ received # <<>>
       /\ received[Len(received)] = CancelledInfo

\* the retry's request of a cursor query was cancelled
CancellationWitness ==
  /\ reqKind = "cursor" /\ qpc = "done" /\ requests = 2
  /\ callbacks = <<"handlePrimaryAST", "cancelled">>
  /\ received = <<CancelledInfo>>

\* C15: when the broker reports that the build failed, the query delivers
\* exactly one result, the default-constructed one (empty, not cancelled,
\* nothing of the diagnostic in it), and no retry request is issued.
BuildFailureIsEmpty ==
  callbacks # <<>> /\ callbacks[Len(callbacks)] = "failed" =>
    /\ qpc = "done"
    /\ received = <<EmptyInfo>>
    /\ requests = Len(callbacks)

\* the consumer rejected the existing analysis and the fresh build failed
BuildFailureWitness ==
  /\ reqKind = "cursor" /\ qpc = "done"
  /\ offered.asked /\ ~offered.answer
  /\ callbacks = <<"failed">>
  /\ received = <<EmptyInfo>>

\* C16: when the declaration has a source location and forward-remapping
\* its begin or its end to the latest snapshot fails, passCursorInfoForDecl
\* reports failure and the Receiver is not invoked in that attempt.
RemapFailureNoPartialAnswer ==
  reqKind = "cursor" =>
    \A i \in 1..Len(handled) :
      LET h == handled[i]
      IN  AttemptRemapFailed(h) =>
            /\ passCursorInfoForDecl(AttemptVD(h), AttemptSnaps(h)) = PassResult(TRUE, <<>>)
            /\ h.calls = <<>>
            /\ h.retry

\* the begin of the location maps to the latest snapshot and its end does not
RemapFailureWitness ==
  /\ reqKind = "cursor" /\ handled # <<>>
  /\ AttemptRemapFailed(handled[1])
  /\ mapOffsetToNewerSnapshot(AttemptVD(handled[1]).loc.val[1],
                              handled[1].ast.stamp, LatestStamp).has
  /\ handled[1].calls = <<>>

-----------------------------------------------------------------------------
(* Properties of the negotiation on equal stamps (checked under Spec) *)

\* the consumer was asked while reuse was permitted, and the existing AST's
\* snapshot of the primary buffer has the stamp of the latest snapshot
EqualStampOffered ==
  /\ reqKind = "cursor" /\ requests = 1 /\ offered.asked
  /\ docOpen
  /\ Candidate # 0
  /\ offered.Snapshots[Candidate].stamp = LatestStamp

\* C17: when reuse is permitted and the existing AST's same-buffer snapshot
\* has the stamp of the latest snapshot, canUseASTWithSnapshots accepts and
\* the offset handed to the resolver is the query's original offset, whatever
\* token (even none) is at that offset.
EqualStampAccepts ==
  EqualStampOffered =>
    /\ offered.answer
    /\ offered.Offset = origOffset
    /\ consumer.Offset = origOffset
    /\ consumer.PreviousASTSnaps = offered.Snapshots
    /\ handled # <<>> =>
          /\ handled[1].Offset = origOffset
          /\ handled[1].answer /\ ~handled[1].ast.fresh

\* an equal-stamp AST of an edited document was accepted and handled although
\* no token starts at the offset
EqualStampWitness ==
  /\ EqualStampOffered
  /\ LatestStamp >= 1
  /\ NewToken = <<>>
  /\ Len(handled) = 1
  /\ handled[1].Offset = origOffset

-----------------------------------------------------------------------------
(* Properties of the related-identifiers query (checked under Spec) *)

\* the attempt's token is one the query excludes
AttemptExcluded(h) ==
  \/ h.LocInvalid
  \/ ~h.SemaTok.valid
  \/ h.SemaTok.IsKeywordArgument
  \/ h.SemaTok.Mod
  \/ AttemptVD(h).isOperator
  \/ ~h.SemaTok.IsRef /\ AttemptVD(h).kind \in {"ctor", "dtor", "subscript"}

\* the attempt's token is a reference to a constructor
AttemptOnCtorRef(h) ==
  /\ ~h.LocInvalid /\ h.SemaTok.valid /\ ~h.SemaTok.Mod /\ ~h.SemaTok.IsKeywordArgument
  /\ h.SemaTok.IsRef /\ h.SemaTok.ValueD.kind = "ctor"

\* the sites of the walk that refer to the constructor the way the token does
SameCtorRefSites(h) ==
  {k \in 1..Len(h.walk) :
     /\ h.walk[k].site = "ref"
     /\ h.walk[k].D = h.SemaTok.ValueD.id
     /\ h.walk[k].CtorTyRef = h.SemaTok.CtorTyRef.id}

\* C18: a related-identifiers query delivers an empty, not cancelled range
\* set when the token is invalid, a keyword-argument label, a module
\* reference, names an operator, or names a constructor, destructor or
\* subscript while not being a reference; a query at a reference to a
\* constructor is not excluded: the range of every such call site of the
\* walk is delivered.
RelatedExclusions ==
  reqKind = "related" =>
    \A i \in 1..Len(handled) :
      LET h == handled[i]
      IN  /\ AttemptExcluded(h) => h.calls = <<RelatedIdentsInfo(<<>>, FALSE)>>
          /\ AttemptOnCtorRef(h) =>
               /\ Len(h.calls) = 1 /\ ~h.calls[1].IsCancelled
               /\ \A k \in SameCtorRefSites(h) :
                    \E j \in 1..Len(h.calls[1].Ranges) :
                      h.calls[1].Ranges[j] = h.walk[k].Range

\* the query was at a call of a constructor through its type, and the walk
\* met such a call site and a declaration of the constructor
RelatedCtorRefWitness ==
  /\ reqKind = "related" /\ qpc = "done" /\ Len(handled) = 1
  /\ AttemptOnCtorRef(handled[1])
  /\ handled[1].SemaTok.CtorTyRef = TypeDecl
  /\ SameCtorRefSites(handled[1]) # {}
  /\ \E k \in 1..Len(handled[1].walk) : handled[1].walk[k].site = "decl"
  /\ Len(received) = 1 /\ Len(received[1].Ranges) = 1

\* the attempt's walk ran and the caller asked to cancel before it ended
AttemptCancelledInWalk(h) ==
  /\ ~AttemptExcluded(h)
  /\ h.cancelAt >= 1

\* C19: once the walk is cancelled while in progress it visits no further
\* sites, and the delivered result holds the ranges collected until then
\* with IsCancelled set.
CancelledWalkStops ==
  reqKind = "related" =>
    \A i \in 1..Len(handled) :
      LET h == handled[i]
      IN  AttemptCancelledInWalk(h) =>
            h.calls = <<RelatedIdentsInfo(
                          Scan(SubSeq(h.walk, 1, h.cancelAt - 1), 1,
                               AttemptVD(h).id, <<>>, FALSE),
                          TRUE)>>

-----------------------------------------------------------------------------
(* Properties of the related names (checked under SpecRelatedDecls) *)

\* the related declarations of the run: the available results other than
\* the declaration itself, in the lookup's order
RelatedOfRun == RelatedDeclsFound(relVD, relLookup)

\* C20 as stated: a related declaration is rendered with parameter types
\* exactly when another related declaration shares its base name.
RenderedByBaseName ==
  relpc = "done" =>
    /\ Len(relNames) = Len(RelatedOfRun)
    /\ \A k \in 1..Len(relNames) :
         relNames[k].form = "ArgumentOnly" <=>
           \E j \in 1..Len(RelatedOfRun) :
             j # k /\ RelatedOfRun[j].base = RelatedOfRun[k].base

\* C20 amended: a related declaration is rendered with parameter types
\* exactly when it is a function declaration whose full name (base name and
\* argument labels) is also the full name of the declaration queried or of
\* another related declaration; every other one is rendered with only its
\* display name.
RenderedByFullName ==
  relpc = "done" =>
    /\ Len(relNames) = Len(RelatedOfRun)
    /\ \A k \in 1..Len(relNames) :
         /\ relNames[k].usr = RelatedOfRun[k].id
         /\ relNames[k].form \in {"ArgumentOnly", "DisplayName"}
         /\ relNames[k].form = "ArgumentOnly" <=>
              /\ RelatedOfRun[k].isFunc
              /\ \/ RelatedOfRun[k].full = relVD.full
                 \/ \E j \in 1..Len(RelatedOfRun) :
                      j # k /\ RelatedOfRun[j].full = RelatedOfRun[k].full

\* two related functions share the base name and differ in their argument
\* labels: both are rendered with their display names only
RenderedByFullNameWitness ==
  /\ relpc = "done"
  /\ Len(relNames) = 2
  /\ RelatedOfRun[1].isFunc /\ RelatedOfRun[2].isFunc
  /\ RelatedOfRun[1].base = RelatedOfRun[2].base
  /\ RelatedOfRun[1].full # RelatedOfRun[2].full
  /\ relNames[1].form = "DisplayName" /\ relNames[2].form = "DisplayName"

-----------------------------------------------------------------------------
(* Properties of the specializer's driver (checked under SpecSpecializer) *)

\* the instructions the iteration has gone past
Visited ==
  LET Fl == Flatten(F)
      Before == IF BB > Len(F) THEN Len(Fl)
                ELSE Len(Flatten(SubSeq(F, 1, BB - 1))) + It - 1
  IN  {Fl[k].id : k \in 1..Before}

\* the call sites with substitutions and a statically known callee with a body
SpecializableSites ==
  {I.id : I \in {J \in Elems(Flatten(F)) :
                   J.apply /\ J.hasSubstitutions /\ J.callee = "definition"}}

\* the instructions the specializer has reported dead, over all its calls
ReportedDead == UNION {Elems(specialized[k].Dead) : k \in 1..Len(specialized)}

IterationInProgress == spc = "run" /\ BB <= Len(F)

\* C21: in one run, the call sites handed to the specializer are exactly the
\* specializable ones the iteration has gone past, each handed once; nothing
\* is deleted while the iteration is in progress; and when the function
\* returns every instruction reported dead has been deleted, once.
SpecializerDriver ==
  spc # "idle" =>
    /\ {specialized[k].site : k \in 1..Len(specialized)} = SpecializableSites \cap Visited
    /\ \A a, b \in 1..Len(specialized) : a # b => specialized[a].site # specialized[b].site
    /\ IterationInProgress => deleted = <<>> /\ Elems(DeadApplies) = ReportedDead
    /\ Elems(deleted) \cup Elems(DeadApplies) = ReportedDead
    /\ \A a, b \in 1..Len(deleted) : a # b => deleted[a] # deleted[b]
    /\ spc = "done" =>
          /\ {specialized[k].site : k \in 1..Len(specialized)} = SpecializableSites
          /\ DeadApplies = <<>>
          /\ Elems(deleted) = ReportedDead

\* two call sites were specialized, a call site that was not handed over was
\* reported dead with one of them, and all of them are deleted
SpecializerDriverWitness ==
  /\ spc = "done"
  /\ Len(specialized) = 2
  /\ Len(deleted) = 3
  /\ \E d \in Elems(deleted) : d \notin SpecializableSites

\* C28: run invalidates the analyses exactly when specializeAppliesInFunction
\* deleted at least one instruction reported dead; a run in which nothing was
\* reported dead invalidates nothing, whatever functions were created and
\* notified to the pass manager.
InvalidationFollowsDeletion ==
  /\ spc = "run" => ~invalidated
  /\ spc = "done" =>
       /\ invalidated <=> deleted # <<>>
       /\ Changed <=> deleted # <<>>
       /\ ReportedDead = {} => ~invalidated

\* new functions were notified, nothing was reported dead, nothing invalidated
InvalidationWitness ==
  /\ spc = "done"
  /\ Len(notified) >= 2
  /\ ReportedDead = {}
  /\ ~invalidated

-----------------------------------------------------------------------------
(* Further properties of the negotiation (checked under Spec) *)

\* the declaration response an attempt delivered, if it delivered one
AttemptDelivered(h) == h.calls # <<>> /\ h.calls[1].Kind = "decl"

\* C22: when canUseASTWithSnapshots accepts, the consumer's offset becomes
\* the (possibly remapped) offset and the whole snapshot list is retained;
\* when it rejects, the consumer's offset is unchanged and the retained list
\* stays empty, so the response from the fresh analysis reports the
\* declaration's location as the analysis gave it.
NegotiationEffect ==
  reqKind = "cursor" /\ offered.asked =>
    IF offered.answer
      THEN /\ consumer.PreviousASTSnaps = offered.Snapshots
           /\ Candidate # 0
           /\ consumer.Offset =
                IF offered.Snapshots[Candidate].stamp = LatestStamp
                  THEN offered.Offset
                  ELSE mapOffsetToOlderSnapshot(offered.Offset, LatestStamp,
                                                offered.Snapshots[Candidate].stamp).val
      ELSE /\ consumer.Offset = offered.Offset
           /\ consumer.PreviousASTSnaps = <<>>
           /\ \A i \in 1..Len(handled) :
                LET h == handled[i]
                IN  (h.asked /\ AttemptOnDecl(h) /\ AttemptDelivered(h)) =>
                      /\ h.ast.fresh
                      /\ h.calls[1].DeclarationLoc = AttemptVD(h).loc

\* an accepted negotiation moved the offset and retained a list of two
NegotiationAcceptWitness ==
  /\ reqKind = "cursor" /\ offered.asked /\ offered.answer
  /\ consumer.Offset # offered.Offset
  /\ Len(offered.Snapshots) = 2
  /\ consumer.PreviousASTSnaps = offered.Snapshots

\* the query's offset expressed in the snapshot the attempt's analysis was
\* built from
OffsetInSnapshotOf(h) ==
  IF h.ast.fresh \/ h.ast.stamp = LatestStamp THEN Some(origOffset)
  ELSE mapOffsetToOlderSnapshot(origOffset, LatestStamp, h.ast.stamp)

\* C24: in every attempt the offset handed to the resolver is expressed in
\* the snapshot the analysis was built from; in particular the retry on the
\* fresh analysis resolves the caller's original offset, not the offset
\* negotiation remapped into the older snapshot.
RetryResolvesOriginalOffset ==
  reqKind = "cursor" =>
    \A i \in 1..Len(handled) :
      /\ OffsetInSnapshotOf(handled[i]).has
      /\ handled[i].Offset = OffsetInSnapshotOf(handled[i]).val

-----------------------------------------------------------------------------
(* Further properties of the offset remapper (checked under SpecRemap) *)

\* C25: forward remap preserves order: when it succeeds on A and on B with
\* A <= B, the result for A is at most the result for B, so the length
\* mappedEnd - mappedBegin of a remapped range is never negative.
ForwardOrderPreserving ==
  rDir = "newer" /\ FirstRemapDone /\ rFirst.has =>
    \A A \in 0..rOrig :
      LET OptBegin == mapOffsetToNewerSnapshot(A, 0, LatestStamp)
      IN  OptBegin.has =>
            /\ OptBegin.val <= rFirst.val
            /\ rFirst.val - OptBegin.val >= 0

\* both ends of a range of positive length were moved by two edits
ForwardOrderWitness ==
  /\ rDir = "newer" /\ FirstRemapDone /\ rFirst.has
  /\ LatestStamp = 2
  /\ \E A \in 0..(rOrig - 1) :
       LET OptBegin == mapOffsetToNewerSnapshot(A, 0, LatestStamp)
       IN  OptBegin.has /\ OptBegin.val # A /\ OptBegin.val < rFirst.val

\* C26: whenever backward remap of an offset P of the newer snapshot
\* succeeds, forward remap of the result over the same chain succeeds and
\* gives exactly P back.
ReverseRoundTrip ==
  (rpc = "done" /\ rDir = "older" /\ rFirst.has) =>
     (rSecond.has /\ rSecond.val = rOrig)

\* an offset at the start of a pure removal is brought back past the removed
\* text by one of two edits and returns to where it was
ReverseRoundTripWitness ==
  /\ rpc = "done" /\ rDir = "older" /\ rFirst.has
  /\ Len(Updates) = 2
  /\ \E j \in 1..2 : /\ BackwardRun[j] = Updates[j].ByteOffset
                      /\ Updates[j].Length > 0
                      /\ Len(Updates[j].Text) = 0
  /\ rFirst.val # rOrig
  /\ rSecond = Some(rOrig)

-----------------------------------------------------------------------------
(* Properties of the snapshot the negotiation examines (checked under Spec) *)

\* the consumer of the first request, which permits reuse, was asked
ReuseNegotiated == reqKind = "cursor" /\ requests = 1 /\ offered.asked

\* the check of one listed snapshot against the latest snapshot: equal
\* stamps, or the offset maps back to it onto the same non-empty token
SnapshotVerifies(Snap) ==
  \/ Snap.stamp = LatestStamp
  \/ LET OptOffset == mapOffsetToOlderSnapshot(offered.Offset, LatestStamp, Snap.stamp)
     IN  /\ OptOffset.has
         /\ NewToken # <<>>
         /\ NewToken = getTokenAt(SnapshotText(Snap.stamp), OptOffset.val)

\* C27: the answer of the negotiation depends only on the first listed
\* snapshot that is from the buffer of the document's latest snapshot: it
\* accepts exactly when that snapshot verifies, whatever the later snapshots
\* are, and rejects when the document has no latest snapshot or no listed
\* snapshot is from its buffer.
FirstSameBufferDecides ==
  ReuseNegotiated =>
    /\ ~docOpen => ~offered.answer
    /\ Candidate = 0 => ~offered.answer
    /\ (docOpen /\ Candidate # 0) =>
          (offered.answer <=> SnapshotVerifies(offered.Snapshots[Candidate]))

\* the first same-buffer snapshot failed the check and the negotiation
\* rejected although a later same-buffer snapshot would have passed it
FirstSameBufferWitness ==
  /\ ReuseNegotiated /\ docOpen
  /\ Candidate # 0 /\ Candidate < Len(offered.Snapshots)
  /\ ~SnapshotVerifies(offered.Snapshots[Candidate])
  /\ \E k \in (Candidate + 1)..Len(offered.Snapshots) :
        /\ isFromSameBuffer(offered.Snapshots[k], Snapshot("main", 0))
        /\ SnapshotVerifies(offered.Snapshots[k])
  /\ ~offered.answer
  /\ qpc = "building"

-----------------------------------------------------------------------------
(* Properties of the occurrence collection (checked under Spec) *)

\* the sites of the attempt's walk that are occurrences of the target: the
\* declaration sites of the target and the reference sites whose entity,
\* or constructed type for a constructor call through a type reference, is
\* the target
OccurrenceSites(h) ==
  {k \in 1..Len(h.walk) :
     \/ h.walk[k].site = "decl" /\ h.walk[k].D = AttemptVD(h).id
     \/ /\ h.walk[k].site = "ref"
        /\ (IF h.walk[k].CtorTyRef # "null" THEN h.walk[k].CtorTyRef
                                            ELSE h.walk[k].D) = AttemptVD(h).id}

\* the j-th occurrence site in the order of the walk
NthOccurrence(h, j) ==
  CHOOSE k \in OccurrenceSites(h) :
    Cardinality({m \in OccurrenceSites(h) : m <= k}) = j

\* C23: the ranges a related-identifiers walk delivers are the ranges of
\* the occurrence sites of the target, one per site and none for any other
\* site, in the order the walk visited them.
OccurrenceCollection ==
  reqKind = "related" =>
    \A i \in 1..Len(handled) :
      LET h == handled[i]
      IN  ~AttemptExcluded(h) =>
            /\ Len(h.calls) = 1
            /\ received = h.calls
            /\ Len(h.calls[1].Ranges) = Cardinality(OccurrenceSites(h))
            /\ \A j \in 1..Len(h.calls[1].Ranges) :
                  h.calls[1].Ranges[j] = h.walk[NthOccurrence(h, j)].Range

\* the walk for a type met its declaration and then a constructor call
\* through a reference to it, and both ranges were delivered in that order
OccurrenceCollectionWitness ==
  /\ reqKind = "related" /\ qpc = "done" /\ Len(handled) = 1
  /\ ~AttemptExcluded(handled[1])
  /\ AttemptVD(handled[1]) = TypeDecl
  /\ handled[1].SemaTok.CtorTyRef = NullDecl
  /\ Len(handled[1].walk) = 2
  /\ handled[1].walk[1].site = "decl"
  /\ handled[1].walk[2].site = "ref" /\ handled[1].walk[2].D = "init"
  /\ OccurrenceSites(handled[1]) = {1, 2}
  /\ Len(received) = 1
  /\ received[1].Ranges = <<handled[1].walk[1].Range, handled[1].walk[2].Range>>
====
